---- MODULE Spec2Model ----
(***************************************************************************)
(* Settings synchronisation of DilmaTT/5supabas: the local store adapter   *)
(* and the sync engine of src/lib/data-manager.ts, the session lifecycle   *)
(* hook of the AuthProvider component, and the user_settings table of the  *)
(* Supabase migration with its trigger and row-level-security policies.    *)
(***************************************************************************)
EXTENDS Naturals, Integers, Sequences, FiniteSets, TLC

(***************************************************************************)
(* Bounds of the model.                                                    *)
(***************************************************************************)
\* longest record sequence a slot holds in an initial state
MaxLen == 1
\* slots of the initial local store that hold an item
MaxFilled == 1
\* exportUserSettings runs the user starts during one page load
MaxExports == 1
\* identity-change notifications one page load receives after the initial one
MaxNotifs == 1

(***************************************************************************)
(* Identities, devices, slots.                                             *)
(***************************************************************************)
Users == {"u1", "u2"}
None == "none"
Identities == Users \cup {None}
Devices == {"d1", "d2"}

\* opaque documents held in the slots
Records == {"r1", "r2"}

\* AppData: the property names of the bundle, in declaration order
AppData == <<"folders", "actionButtons", "trainings", "statistics", "charts">>
SlotNames == {AppData[i] : i \in 1..Len(AppData)}

\* the localStorage key of each AppData property
StorageKey(slot) ==
  CASE slot = "folders" -> "poker-ranges-folders"
    [] slot = "actionButtons" -> "poker-ranges-actions"
    [] slot = "trainings" -> "training-sessions"
    [] slot = "statistics" -> "training-statistics"
    [] slot = "charts" -> "userCharts"
StorageKeys == {StorageKey(s) : s \in SlotNames}

\* the jsonb columns of public.user_settings
Columns == {"folders", "action_buttons", "trainings", "statistics", "charts"}

(***************************************************************************)
(* JSON values and JSON text.  A value is an array of documents, null, or  *)
(* undefined (a property that is not there).  Text is a sequence of        *)
(* tokens; JSON.parse accepts exactly the texts JSON.stringify produces.   *)
(***************************************************************************)
JArr(s) == [t |-> "array", v |-> s]
JNull == [t |-> "null", v |-> <<>>]
Undefined == [t |-> "undefined", v |-> <<>>]

RECURSIVE Join(_)
Join(s) ==
  IF Len(s) = 0 THEN <<>>
  ELSE IF Len(s) = 1 THEN <<s[1]>>
  ELSE <<s[1], ",">> \o Join(Tail(s))

JSONstringify(val) ==
  IF val.t = "array" THEN <<"[">> \o Join(val.v) \o <<"]">>
  ELSE <<"null">>

\* the elements of a comma-separated token list, or the failure marker
RECURSIVE Elements(_)
Elements(toks) ==
  IF Len(toks) = 0 THEN [ok |-> FALSE, v |-> <<>>]
  ELSE IF toks[1] \notin Records THEN [ok |-> FALSE, v |-> <<>>]
  ELSE IF Len(toks) = 1 THEN [ok |-> TRUE, v |-> <<toks[1]>>]
  ELSE IF toks[2] # "," THEN [ok |-> FALSE, v |-> <<>>]
  ELSE LET rest == Elements(SubSeq(toks, 3, Len(toks)))
       IN  IF rest.ok THEN [ok |-> TRUE, v |-> <<toks[1]>> \o rest.v]
           ELSE [ok |-> FALSE, v |-> <<>>]

\* JSON.parse: ok = FALSE is the SyntaxError it throws
JSONparse(text) ==
  IF text = <<"null">> THEN [ok |-> TRUE, val |-> JNull]
  ELSE IF Len(text) >= 2 /\ text[1] = "[" /\ text[Len(text)] = "]"
  THEN IF Len(text) = 2 THEN [ok |-> TRUE, val |-> JArr(<<>>)]
       ELSE LET e == Elements(SubSeq(text, 2, Len(text) - 1))
            IN  IF e.ok THEN [ok |-> TRUE, val |-> JArr(e.v)]
                ELSE [ok |-> FALSE, val |-> Undefined]
  ELSE [ok |-> FALSE, val |-> Undefined]

\* truthiness of a value: arrays (also empty ones) are truthy
Truthy(val) == val.t = "array"

(***************************************************************************)
(* localStorage of one device: key -> item.  has = FALSE is a key that was *)
(* never set (getItem returns null).                                       *)
(***************************************************************************)
NoItem == [has |-> FALSE, text |-> <<>>]
Item(text) == [has |-> TRUE, text |-> text]

getItem(store, key) == store[key]

\* getItem(key) || '[]' : null and the empty string are falsy
OrEmptyArray(item) ==
  IF item.has /\ item.text # <<>> THEN item.text ELSE <<"[", "]">>

SlotOfKey(key) == CHOOSE s \in SlotNames : StorageKey(s) = key

\* one slot as gatherDataFromLocalStorage reads it
ParsedSlot(store, slot) ==
  JSONparse(OrEmptyArray(getItem(store, StorageKey(slot))))

\* gatherDataFromLocalStorage: ok = FALSE is the SyntaxError of a JSON.parse
gatherDataFromLocalStorage(store) ==
  IF \A s \in SlotNames : ParsedSlot(store, s).ok
  THEN [ok |-> TRUE, data |-> [s \in SlotNames |-> ParsedSlot(store, s).val]]
  ELSE [ok |-> FALSE, data |-> [s \in SlotNames |-> Undefined]]

\* obj.k of an object given as a function: undefined when k is no property
Prop(obj, k) == IF k \in DOMAIN obj THEN obj[k] ELSE Undefined

\* variant of applyDataToLocalStorage with `if (data.x && data.x.length)`: an
\* empty array is not written
applyDataSkippingEmpty(store, data) ==
  [k \in StorageKeys |->
     IF Truthy(Prop(data, SlotOfKey(k))) /\ Len(Prop(data, SlotOfKey(k)).v) > 0
     THEN Item(JSONstringify(Prop(data, SlotOfKey(k))))
     ELSE store[k]]

\* the setItem calls of applyDataToLocalStorage: a slot is written when the
\* property of that name is truthy
applyDataToLocalStorage(store, data) ==
  [k \in StorageKeys |->
     IF Truthy(Prop(data, SlotOfKey(k)))
     THEN Item(JSONstringify(Prop(data, SlotOfKey(k))))
     ELSE store[k]]

\* the slots applyDataToLocalStorage writes
SlotsWritten(data) == {s \in SlotNames : Truthy(Prop(data, s))}

\* Object.values(localData).some(arr => arr.length > 0), in property order:
\* "throw" is the TypeError of reading .length of null
RECURSIVE SomeHasLength(_, _)
SomeHasLength(data, i) ==
  IF i > Len(AppData) THEN "false"
  ELSE IF data[AppData[i]].t = "null" THEN "throw"
  ELSE IF Len(data[AppData[i]].v) > 0 THEN "true"
  ELSE SomeHasLength(data, i + 1)

\* variant of hasLocalData with arr.length >= 0 for arr.length > 0
hasLocalDataOrEmpty(data) ==
  IF \E s \in SlotNames : data[s].t = "null" THEN "throw" ELSE "true"

hasLocalData(data) == SomeHasLength(data, 1)

(***************************************************************************)
(* public.user_settings: a set of rows.  updated_at is kept as the clock   *)
(* that produced it.                                                       *)
(***************************************************************************)
ClientNow == "client new Date()"
ServerNow == "server now()"

\* DEFAULT '[]'::jsonb
ColumnDefault == JArr(<<>>)

\* the object handed to .upsert(): user_id, the spread bundle, updated_at
UpsertPayload(userId, settingsData) ==
  [user_id |-> userId, body |-> settingsData, updated_at |-> ClientNow]
NoPayload ==
  [user_id |-> None, body |-> [s \in SlotNames |-> Undefined], updated_at |-> ""]

\* row-level security: TO authenticated, auth.uid() = user_id
PolicySelect(caller, row) == caller # None /\ caller = row.user_id
PolicyInsert(caller, row) == caller # None /\ caller = row.user_id
PolicyUpdate(caller, row) == caller # None /\ caller = row.user_id

\* trigger on_user_settings_update, BEFORE UPDATE
handle_updated_at(new) == [new EXCEPT !.updated_at = ServerNow]

\* the row an INSERT of the payload proposes: a payload key that names a
\* column fills it, every other column takes its default
InsertedRow(payload) ==
  [user_id |-> payload.user_id,
   cols |-> [c \in Columns |-> IF c \in DOMAIN payload.body
                                THEN payload.body[c] ELSE ColumnDefault],
   updated_at |-> payload.updated_at]

\* ON CONFLICT (user_id) DO UPDATE: the columns the payload names are
\* replaced, then the BEFORE UPDATE trigger runs
UpdatedRow(old, payload) ==
  handle_updated_at(
    [user_id |-> old.user_id,
     cols |-> [c \in Columns |-> IF c \in DOMAIN payload.body
                                  THEN payload.body[c] ELSE old.cols[c]],
     updated_at |-> payload.updated_at])

\* .upsert(payload, { onConflict: 'user_id' }) as the table executes it for a
\* caller; error = TRUE is a rejected statement
Upsert(tbl, caller, payload) ==
  LET conflict == {r \in tbl : r.user_id = payload.user_id}
  IN  IF ~PolicyInsert(caller, InsertedRow(payload))
      THEN [error |-> TRUE, table |-> tbl]
      ELSE IF conflict = {}
      THEN [error |-> FALSE, table |-> tbl \cup {InsertedRow(payload)}]
      ELSE IF \A r \in conflict : PolicyUpdate(caller, r)
      THEN [error |-> FALSE,
            table |-> (tbl \ conflict) \cup {UpdatedRow(r, payload) : r \in conflict}]
      ELSE [error |-> TRUE, table |-> tbl]

NoRow == [user_id |-> None, cols |-> [c \in Columns |-> Undefined], updated_at |-> ""]

\* .select('*').eq('user_id', uid).single(): the one visible row, or the
\* PGRST116 error when the result is not exactly one row
SelectSingle(tbl, caller, uid) ==
  LET rows == {r \in tbl : PolicySelect(caller, r) /\ r.user_id = uid}
  IN  IF Cardinality(rows) = 1
      THEN [code |-> "", data |-> CHOOSE r \in rows : TRUE]
      ELSE [code |-> "PGRST116", data |-> NoRow]

\* variant of PolicyUpdateCheck for an UPDATE policy whose USING expression
\* is not applied to the new row
NoUpdateCheck(caller, row) == TRUE

\* the UPDATE policy has no WITH CHECK: its USING expression is applied to
\* the new row as well
PolicyUpdateCheck(caller, row) == PolicyUpdate(caller, row)

\* INSERT of a row by a caller: rejected by the policy or by the primary key
Insert(tbl, caller, row) ==
  IF ~PolicyInsert(caller, row) \/ (\E r \in tbl : r.user_id = row.user_id)
  THEN [error |-> TRUE, table |-> tbl]
  ELSE [error |-> FALSE, table |-> tbl \cup {row}]

\* UPDATE ... SET (all columns of new) WHERE user_id = uid by a caller: the
\* rows the policy hides are not touched, the new row must pass the policy and
\* the primary key, then the BEFORE UPDATE trigger runs
Update(tbl, caller, uid, new) ==
  LET targets == {r \in tbl : r.user_id = uid /\ PolicyUpdate(caller, r)}
  IN  IF targets = {} THEN [error |-> FALSE, table |-> tbl]
      ELSE IF ~PolicyUpdateCheck(caller, new)
                \/ (\E r \in tbl \ targets : r.user_id = new.user_id)
      THEN [error |-> TRUE, table |-> tbl]
      ELSE [error |-> FALSE,
            table |-> (tbl \ targets) \cup {handle_updated_at(new)}]

(***************************************************************************)
(* State.                                                                  *)
(***************************************************************************)
VARIABLES
  local,        \* localStorage of each device
  session,      \* the session the auth client of each device holds
  auth,         \* AuthProvider state of each device: user, profile, loading
  pending,      \* callbacks suspended at the profile fetch, per identity
  tasks,        \* the importUserSettings / exportUserSettings runs in flight
  last,         \* the run that finished last during this page load
  reloadTimer,  \* a setTimeout(() => window.location.reload(), 250) is armed
  hook,         \* what the subscription of this page load has seen
  table         \* public.user_settings

vars == <<local, session, auth, pending, tasks, last, reloadTimer, hook, table>>

\* a run of importUserSettings ("import") or exportUserSettings ("export")
NewTask(kind) ==
  [kind |-> kind, pc |-> "getUser", checked |-> FALSE, user |-> None,
   caller |-> None, fetched |-> "", payload |-> NoPayload, outcome |-> "",
   alerts |-> 0, fetches |-> 0, upserts |-> 0, reloads |-> 0, wrote |-> {}]

NoTask == [NewTask("none") EXCEPT !.pc = "none"]

Finish(t, outcome) == [t EXCEPT !.pc = "done", !.outcome = outcome]
Alert(t) == [t EXCEPT !.alerts = @ + 1]

\* useState initial values of AuthProvider
InitialAuth == [user |-> None, profile |-> None, loading |-> TRUE]
NoPending == [u \in Users |-> 0]
FreshHook == [notified |-> 0, withIdentity |-> 0, signIns |-> 0, invoked |-> 0]

(***************************************************************************)
(* The onAuthStateChange callback.                                         *)
(***************************************************************************)
\* the callback up to its first await: setSession, setUser, and either the
\* profile fetch is issued or the profile is cleared and loading ends
CallbackEntered(a, id) ==
  IF id # None THEN [a EXCEPT !.user = id]
  ELSE [a EXCEPT !.user = None, !.profile = None, !.loading = FALSE]

\* variant of CallbackFinished for `await importUserSettings()`: the turn
\* ends at the await and setLoading(false) has not run
CallbackAwaitingImport(a) == a

\* the end of the callback after importUserSettings() was called without
\* await: setLoading(false) runs in the same turn
CallbackFinished(a) == [a EXCEPT !.loading = FALSE]

\* a notification delivered to the subscription of device d
Notified(h, a, id) ==
  [h EXCEPT !.notified = @ + 1,
            !.withIdentity = IF id # None THEN @ + 1 ELSE @,
            !.signIns = IF id # None /\ id # a.user THEN @ + 1 ELSE @]

onAuthStateChange(d, id) ==
  /\ auth' = [auth EXCEPT ![d] = CallbackEntered(auth[d], id)]
  /\ pending' = IF id # None THEN [pending EXCEPT ![d][id] = @ + 1] ELSE pending
  /\ hook' = [hook EXCEPT ![d] = Notified(hook[d], auth[d], id)]

\* login: signInWithPassword succeeds and the listener is notified
login(d, u) ==
  /\ hook[d].notified <= MaxNotifs
  /\ session' = [session EXCEPT ![d] = u]
  /\ onAuthStateChange(d, u)
  /\ UNCHANGED <<local, tasks, last, reloadTimer, table>>

\* logout: signOut and the listener is notified with no session
logout(d) ==
  /\ hook[d].notified <= MaxNotifs
  /\ session[d] # None
  /\ session' = [session EXCEPT ![d] = None]
  /\ onAuthStateChange(d, None)
  /\ UNCHANGED <<local, tasks, last, reloadTimer, table>>

\* the profile fetch of a suspended callback returns: setProfile, then
\* importUserSettings() is called (it runs up to its own first await), then
\* setLoading(false)
ProfileFetched(d, u, found) ==
  /\ pending[d][u] > 0
  /\ pending' = [pending EXCEPT ![d][u] = @ - 1]
  /\ auth' = [auth EXCEPT ![d] =
                CallbackFinished([auth[d] EXCEPT !.profile = IF found THEN u ELSE None])]
  /\ tasks' = [tasks EXCEPT ![d] = Append(@, NewTask("import"))]
  /\ hook' = [hook EXCEPT ![d].invoked = @ + 1]
  /\ UNCHANGED <<local, session, last, reloadTimer, table>>

(***************************************************************************)
(* The sync engine.  A task advances at each await of its function; what   *)
(* the awaited call answered is kept in the task (checked, user, fetched). *)
(***************************************************************************)
RemoveAt(s, i) == SubSeq(s, 1, i - 1) \o SubSeq(s, i + 1, Len(s))

\* task i of device d becomes t; a finished run leaves the tasks in flight
SetTask(d, i, t) ==
  IF t.pc = "done"
  THEN /\ tasks' = [tasks EXCEPT ![d] = RemoveAt(@, i)]
       /\ last' = [last EXCEPT ![d] = t]
  ELSE /\ tasks' = [tasks EXCEPT ![d][i] = t]
       /\ UNCHANGED last

\* supabase.auth.getUser() answers with the user of the session, or with no
\* user when the call fails
GetUserResults(d) == {session[d], None}

\* the upsert of uploadInitialSettings / exportUserSettings is issued with the
\* token of the session held at that moment
IssueUpsert(d, t, userId, settingsData) ==
  [t EXCEPT !.pc = "uploading", !.caller = session[d],
            !.payload = UpsertPayload(userId, settingsData),
            !.upserts = @ + 1]

\* variant of ImportAfterGetUser without the `if (!user) return`
ImportWithoutUserCheck(d, t, user) ==
  [t EXCEPT !.pc = "fetching", !.caller = session[d], !.fetches = @ + 1]

\* importUserSettings after getUser(): return when there is no user, else
\* issue the select
ImportAfterGetUser(d, t, user) ==
  IF user = None THEN Finish(t, "noUser")
  ELSE [t EXCEPT !.pc = "fetching", !.caller = session[d], !.fetches = @ + 1]

\* exportUserSettings after getUser(): alert when there is no user, else
\* gather the local data and issue the upsert
ExportAfterGetUser(d, t, user) ==
  IF user = None THEN Finish(Alert(t), "notSignedIn")
  ELSE LET g == gatherDataFromLocalStorage(local[d])
       IN  IF ~g.ok THEN Finish(t, "threw")
           ELSE IssueUpsert(d, t, user, g.data)

GetUserResolved(d, i, user) ==
  /\ i \in DOMAIN tasks[d]
  /\ tasks[d][i].pc = "getUser"
  /\ user \in GetUserResults(d)
  /\ LET t == [tasks[d][i] EXCEPT !.checked = TRUE, !.user = user]
     IN  SetTask(d, i, IF t.kind = "import" THEN ImportAfterGetUser(d, t, user)
                       ELSE ExportAfterGetUser(d, t, user))
  /\ UNCHANGED <<local, session, auth, pending, reloadTimer, hook, table>>

\* the user presses "save to cloud"
exportUserSettings(d) ==
  /\ Cardinality({i \in DOMAIN tasks[d] : tasks[d][i].kind = "export"}) < MaxExports
  /\ tasks' = [tasks EXCEPT ![d] = Append(@, NewTask("export"))]
  /\ UNCHANGED <<local, session, auth, pending, last, reloadTimer, hook, table>>

\* the branch of importUserSettings with a record: the destructured rest of
\* the row goes to applyDataToLocalStorage, which alerts and arms the reload
ApplyRemote(t, row) ==
  Finish([Alert(t) EXCEPT !.reloads = @ + 1, !.wrote = SlotsWritten(row.cols)],
         "applied")

\* the branch of importUserSettings without a record
InitialSync(d, t) ==
  LET g == gatherDataFromLocalStorage(local[d])
  IN  IF ~g.ok \/ hasLocalData(g.data) = "throw" THEN Finish(t, "threw")
      ELSE IF hasLocalData(g.data) = "true" THEN IssueUpsert(d, t, t.user, g.data)
      ELSE Finish(t, "freshStart")

\* variant of ImportAfterFetch without the `return` after the error alert:
\* the error falls through to the branch without a record
ImportFallingThrough(d, t, r) ==
  IF r.code = ""
  THEN [task |-> ApplyRemote(t, r.data),
        store |-> applyDataToLocalStorage(local[d], r.data.cols),
        reload |-> TRUE]
  ELSE [task |-> InitialSync(d, IF r.code = "PGRST116" THEN t ELSE Alert(t)),
        store |-> local[d], reload |-> reloadTimer[d]]

\* importUserSettings after the select answered r = {data, error}: what
\* becomes of the task, of the local store and of the reload timer
ImportAfterFetch(d, t, r) ==
  IF r.code # "" /\ r.code # "PGRST116"
  THEN [task |-> Finish(Alert(t), "fetchError"), store |-> local[d],
        reload |-> reloadTimer[d]]
  ELSE IF r.code = ""
  THEN [task |-> ApplyRemote(t, r.data),
        store |-> applyDataToLocalStorage(local[d], r.data.cols),
        reload |-> TRUE]
  ELSE [task |-> InitialSync(d, t), store |-> local[d], reload |-> reloadTimer[d]]

\* the answer r of the select reaches task i
FetchResolved(d, i, r) ==
  /\ i \in DOMAIN tasks[d]
  /\ tasks[d][i].pc = "fetching"
  /\ LET t == [tasks[d][i] EXCEPT
                 !.fetched = IF r.code = "" THEN "record" ELSE r.code]
         after == ImportAfterFetch(d, t, r)
     IN  /\ SetTask(d, i, after.task)
         /\ local' = [local EXCEPT ![d] = after.store]
         /\ reloadTimer' = [reloadTimer EXCEPT ![d] = after.reload]
  /\ UNCHANGED <<session, auth, pending, hook, table>>

\* the select fails with an error that is not PGRST116
FetchFailed(d, i) == FetchResolved(d, i, [code |-> "other", data |-> NoRow])

\* the select is executed: a record, or the PGRST116 error
FetchReturned(d, i) ==
  /\ i \in DOMAIN tasks[d]
  /\ FetchResolved(d, i, SelectSingle(table, tasks[d][i].caller, tasks[d][i].user))

\* after the upsert answered: uploadInitialSettings and the tail of
\* exportUserSettings alert the error or the success
AfterUpsert(t, error) ==
  Finish(Alert(t), IF error THEN "uploadError" ELSE "uploaded")

\* the upsert fails before the table executes it
UpsertFailed(d, i) ==
  /\ i \in DOMAIN tasks[d]
  /\ tasks[d][i].pc = "uploading"
  /\ SetTask(d, i, AfterUpsert(tasks[d][i], TRUE))
  /\ UNCHANGED <<local, session, auth, pending, reloadTimer, hook, table>>

\* the upsert is executed by the table and its result is answered
UpsertReturned(d, i) ==
  /\ i \in DOMAIN tasks[d]
  /\ tasks[d][i].pc = "uploading"
  /\ LET t == tasks[d][i]
         r == Upsert(table, t.caller, t.payload)
     IN  /\ table' = r.table
         /\ SetTask(d, i, AfterUpsert(t, r.error))
  /\ UNCHANGED <<local, session, auth, pending, reloadTimer, hook>>

\* the state of a page right after it mounted and the subscription got its
\* first notification, which carries the stored session
MountedAuth(id) == CallbackEntered(InitialAuth, id)
MountedPending(id) == IF id # None THEN [NoPending EXCEPT ![id] = 1] ELSE NoPending
MountedHook(id) == Notified(FreshHook, InitialAuth, id)

\* window.location.reload(): the page and all its tasks are gone, the
\* application mounts again and the session is restored
Reload(d) ==
  /\ reloadTimer[d]
  /\ reloadTimer' = [reloadTimer EXCEPT ![d] = FALSE]
  /\ tasks' = [tasks EXCEPT ![d] = <<>>]
  /\ last' = [last EXCEPT ![d] = NoTask]
  /\ auth' = [auth EXCEPT ![d] = MountedAuth(session[d])]
  /\ pending' = [pending EXCEPT ![d] = MountedPending(session[d])]
  /\ hook' = [hook EXCEPT ![d] = MountedHook(session[d])]
  /\ UNCHANGED <<local, session, table>>

(***************************************************************************)
(* Initial states.                                                         *)
(***************************************************************************)
EmptyStore == [k \in StorageKeys |-> NoItem]

\* documents made on the device, documents that came from another device
LocalDocs == {"r1"}
RemoteDocs == {"r2"}

NonEmptyArrays(docs) == UNION {[1..k -> docs] : k \in 1..MaxLen}

\* texts that are not the JSON of an array: null, and a truncated array
MalformedTexts == {<<"null">>, <<"[", "r1">>}

\* stores with at most n slots holding a non-empty array of local documents
FilledStores(n) ==
  {[k \in StorageKeys |-> IF k \in DOMAIN f THEN Item(JSONstringify(JArr(f[k]))) ELSE NoItem] :
     f \in UNION {[ks -> NonEmptyArrays(LocalDocs)] :
                    ks \in {x \in SUBSET StorageKeys : Cardinality(x) <= n}}}

\* ... of which at most one slot holds a malformed text instead
Stores(n) ==
  FilledStores(n) \cup
  {[st EXCEPT ![k] = Item(txt)] :
     st \in FilledStores(n), k \in StorageKeys, txt \in MalformedTexts}

RowOf(u, cols) == [user_id |-> u, cols |-> cols, updated_at |-> ServerNow]

\* rows with at most n non-empty columns, of documents from another device
Rows(u, n) ==
  {RowOf(u, [c \in Columns |-> IF c \in DOMAIN f THEN JArr(f[c]) ELSE JArr(<<>>)]) :
     f \in UNION {[cs -> NonEmptyArrays(RemoteDocs)] :
                    cs \in {x \in SUBSET Columns : Cardinality(x) <= n}}}

FullRow(u) == RowOf(u, [c \in Columns |-> JArr(<<"r2">>)])
FolderStore == [EmptyStore EXCEPT !["poker-ranges-folders"] = Item(<<"[", "r1", "]">>)]

InitDevice(d, store, id) ==
  /\ local = [e \in Devices |-> IF e = d THEN store ELSE EmptyStore]
  /\ session = [e \in Devices |-> IF e = d THEN id ELSE None]
  /\ auth = [e \in Devices |-> MountedAuth(session[e])]
  /\ pending = [e \in Devices |-> MountedPending(session[e])]
  /\ hook = [e \in Devices |-> MountedHook(session[e])]
  /\ tasks = [e \in Devices |-> <<>>]
  /\ last = [e \in Devices |-> NoTask]
  /\ reloadTimer = [e \in Devices |-> FALSE]

(***************************************************************************)
(* Spec: the session lifecycle of one device.  The page has mounted with   *)
(* any stored session; logins, logouts, the callbacks and the runs of      *)
(* importUserSettings they start interleave freely.                        *)
(***************************************************************************)
Init ==
  /\ \E store \in {EmptyStore, FolderStore}, id \in Identities :
        InitDevice("d1", store, id)
  /\ table \in {{}, {FullRow("u1")}, {FullRow("u1"), FullRow("u2")}}

Engine(d) ==
  \/ \E u \in Users, found \in BOOLEAN : ProfileFetched(d, u, found)
  \/ \E i \in DOMAIN tasks[d], user \in Identities : GetUserResolved(d, i, user)
  \/ \E i \in DOMAIN tasks[d] : FetchFailed(d, i)
  \/ \E i \in DOMAIN tasks[d] : FetchReturned(d, i)
  \/ \E i \in DOMAIN tasks[d] : UpsertFailed(d, i)
  \/ \E i \in DOMAIN tasks[d] : UpsertReturned(d, i)
  \/ Reload(d)

Next ==
  \/ \E u \in Users : login("d1", u)
  \/ logout("d1")
  \/ Engine("d1")

Spec == Init /\ [][Next]_vars

(***************************************************************************)
(* SyncSpec: the sync engine of one device over the contents of the local  *)
(* store and of the table.  The session stays as it was stored; the engine *)
(* runs as the hook starts it at every mount and as the user saves.        *)
(***************************************************************************)
SyncInit ==
  \/ /\ \E store \in Stores(MaxFilled), id \in {"u1", None} : InitDevice("d1", store, id)
     /\ table = {}
  \/ /\ \E store \in {EmptyStore, FolderStore}, id \in {"u1", None} :
           InitDevice("d1", store, id)
     /\ table \in {{r} : r \in Rows("u1", MaxFilled)}

SyncNext ==
  \/ exportUserSettings("d1")
  \/ Engine("d1")

SyncSpec == SyncInit /\ [][SyncNext]_vars

(***************************************************************************)
(* RestoreSpec: the page with its stored session and nobody touching it:  *)
(* no login, no logout, no manual save.  An armed reload timer fires and   *)
(* every awaited call is answered.                                         *)
(***************************************************************************)
RestoreNext == Engine("d1")

RestoreSpec == SyncInit /\ [][RestoreNext]_vars /\ WF_vars(RestoreNext)

(***************************************************************************)
(* DevicesSpec: two devices with the stored session of the same identity   *)
(* and their own local stores, against a table that starts empty.  On each *)
(* device the hook starts the engine at every mount; the user of the first *)
(* device also saves.                                                      *)
(***************************************************************************)
ActionsStore == [EmptyStore EXCEPT !["poker-ranges-actions"] = Item(<<"[", "r1", "]">>)]
ChartsStore == [EmptyStore EXCEPT !["userCharts"] = Item(<<"[", "r2", "]">>)]

DevicesInit ==
  /\ \E s1 \in {FolderStore, ActionsStore}, s2 \in {EmptyStore, ChartsStore} :
        local = [e \in Devices |-> IF e = "d1" THEN s1 ELSE s2]
  /\ session = [e \in Devices |-> "u1"]
  /\ auth = [e \in Devices |-> MountedAuth(session[e])]
  /\ pending = [e \in Devices |-> MountedPending(session[e])]
  /\ hook = [e \in Devices |-> MountedHook(session[e])]
  /\ tasks = [e \in Devices |-> <<>>]
  /\ last = [e \in Devices |-> NoTask]
  /\ reloadTimer = [e \in Devices |-> FALSE]
  /\ table = {}

DevicesNext ==
  \/ exportUserSettings("d1")
  \/ \E d \in Devices : Engine(d)

DevicesSpec == DevicesInit /\ [][DevicesNext]_vars

(***************************************************************************)
(* PolicySpec: statements sent to public.user_settings directly with the   *)
(* token of the session of a device, any row and any key in them.  What    *)
(* the statement was and how it was answered is kept in `last`.            *)
(***************************************************************************)
Statement(kind, caller, uid, answer) ==
  [NoTask EXCEPT !.kind = kind, !.pc = "done", !.caller = caller, !.user = uid,
                 !.checked = TRUE, !.outcome = answer]

\* select * from user_settings where user_id = uid
ApiSelect(d, uid) ==
  /\ LET r == SelectSingle(table, session[d], uid)
     IN  last' = [last EXCEPT ![d] =
                    [Statement("select", session[d], uid, "answered") EXCEPT
                       !.fetched = IF r.code = "" THEN "record" ELSE r.code]]
  /\ UNCHANGED <<local, session, auth, pending, tasks, reloadTimer, hook, table>>

\* insert into user_settings values (row)
ApiInsert(d, row) ==
  /\ LET r == Insert(table, session[d], row)
     IN  /\ table' = r.table
         /\ last' = [last EXCEPT ![d] =
                       Statement("insert", session[d], row.user_id,
                                 IF r.error THEN "denied" ELSE "written")]
  /\ UNCHANGED <<local, session, auth, pending, tasks, reloadTimer, hook>>

\* update user_settings set (new) where user_id = uid
ApiUpdate(d, uid, new) ==
  /\ LET r == Update(table, session[d], uid, new)
     IN  /\ table' = r.table
         /\ last' = [last EXCEPT ![d] =
                       Statement("update", session[d], new.user_id,
                                 IF r.error THEN "denied"
                                 ELSE IF r.table = table THEN "no rows"
                                 ELSE "written")]
  /\ UNCHANGED <<local, session, auth, pending, tasks, reloadTimer, hook>>

\* the rows a statement can carry and a table can hold: for each user one
\* with every column empty and one with every column filled
EmptyRow(u) == RowOf(u, [c \in Columns |-> ColumnDefault])
AnyRows == UNION {{EmptyRow(u), FullRow(u)} : u \in Users}

\* tables with at most one row per user
Tables ==
  {r1 \cup r2 : r1 \in {{}, {EmptyRow("u1")}, {FullRow("u1")}},
                r2 \in {{}, {EmptyRow("u2")}, {FullRow("u2")}}}

PolicyInit ==
  /\ \E id \in Identities : InitDevice("d1", EmptyStore, id)
  /\ table \in Tables

PolicyNext ==
  \/ \E uid \in Users : ApiSelect("d1", uid)
  \/ \E row \in AnyRows : ApiInsert("d1", row)
  \/ \E uid \in Users, new \in AnyRows : ApiUpdate("d1", uid, new)

PolicySpec == PolicyInit /\ [][PolicyNext]_vars

(***************************************************************************)
(* Vocabulary of the properties.                                           *)
(***************************************************************************)
\* the column that stores a slot of the bundle, as the migration documents it
ColumnOf(slot) == IF slot = "actionButtons" THEN "action_buttons" ELSE slot

\* the bundle a store holds: a slot that is missing or does not hold the
\* JSON of an array counts as the empty sequence
SlotValue(store, slot) ==
  IF ParsedSlot(store, slot).ok /\ ParsedSlot(store, slot).val.t = "array"
  THEN ParsedSlot(store, slot).val ELSE JArr(<<>>)
Bundle(store) == [s \in SlotNames |-> SlotValue(store, s)]
AllSlotsEmpty(store) == \A s \in SlotNames : SlotValue(store, s) = JArr(<<>>)

\* in this step task i of device d advanced; After is the task it became
Moved(d, i) ==
  /\ i \in DOMAIN tasks[d]
  /\ \/ /\ Len(tasks'[d]) = Len(tasks[d])
        /\ tasks'[d][i] # tasks[d][i]
     \/ /\ Len(tasks'[d]) = Len(tasks[d]) - 1
        /\ tasks'[d] = RemoveAt(tasks[d], i)
        /\ last'[d].pc = "done"
After(d, i) == IF Len(tasks'[d]) = Len(tasks[d]) THEN tasks'[d][i] ELSE last'[d]

\* in this step the select of import task i was answered with `fetched`
FetchAnswered(d, i, fetched) ==
  /\ Moved(d, i)
  /\ tasks[d][i].pc = "fetching"
  /\ After(d, i).fetched = fetched

\* in this step getUser() of task i was answered
UserAnswered(d, i, kind) ==
  /\ Moved(d, i)
  /\ tasks[d][i].pc = "getUser"
  /\ tasks[d][i].kind = kind

RowsOf(tbl, u) == {r \in tbl : r.user_id = u}

(***************************************************************************)
(* The claims.                                                             *)
(***************************************************************************)
\* C1: when the fetch of a run of importUserSettings returns a record R, the
\* run leaves each of the five local slots equal to the corresponding slot of
\* R, arms the reload exactly once and issues no upsert.
C1_ApplyRemoteAllSlots ==
  [][\A d \in Devices : \A i \in DOMAIN tasks[d] :
       FetchAnswered(d, i, "record") =>
         LET R == SelectSingle(table, tasks[d][i].caller, tasks[d][i].user).data
         IN  /\ \A s \in SlotNames :
                  ParsedSlot(local'[d], s) = [ok |-> TRUE, val |-> R.cols[ColumnOf(s)]]
             /\ After(d, i).reloads = 1
             /\ reloadTimer'[d]
             /\ After(d, i).upserts = 0
             /\ table' = table]_vars

\* C2: when the fetch returns NotFound while at least one local slot is
\* non-empty, the run issues exactly one upsert, keyed by the identity and
\* carrying all five slots of the local bundle, leaves the local store
\* unchanged and arms no reload.
C2_UploadInitialOnce ==
  [][\A d \in Devices : \A i \in DOMAIN tasks[d] :
       (FetchAnswered(d, i, "PGRST116") /\ ~AllSlotsEmpty(local[d])) =>
         /\ After(d, i).pc = "uploading"
         /\ After(d, i).upserts = 1
         /\ After(d, i).payload.user_id = tasks[d][i].user
         /\ After(d, i).payload.body = Bundle(local[d])
         /\ local'[d] = local[d]
         /\ After(d, i).reloads = 0
         /\ reloadTimer'[d] = reloadTimer[d]]_vars

\* C3: with a stored session of an identity that has a remote record and no
\* new sign-in, only finitely many reloads happen: from some point on no
\* reload is armed.
C3_FinitelyManyReloads ==
  (session["d1"] # None /\ RowsOf(table, session["d1"]) # {})
     => <>[](~reloadTimer["d1"])

\* C4: whenever a run of importUserSettings overwrites a local slot, what the
\* slot held before was empty or is stored in the remote record of the
\* signed-in identity: no local documents that were never uploaded are lost.
C4_NoDataLoss ==
  [][\A d \in Devices : \A i \in DOMAIN tasks[d] :
       FetchAnswered(d, i, "record") =>
         LET R == SelectSingle(table, tasks[d][i].caller, tasks[d][i].user).data
         IN  \A s \in After(d, i).wrote :
               \/ SlotValue(local[d], s) = JArr(<<>>)
               \/ SlotValue(local[d], s) = R.cols[ColumnOf(s)]]_vars

\* C5: when the fetch fails with an error other than PGRST116 the run ends
\* without an upsert, without a local write and without a reload, and with
\* exactly one notification; a reload is armed only by a run whose fetch
\* returned a record.
C5_FetchErrorAborts ==
  [][\A d \in Devices :
       /\ \A i \in DOMAIN tasks[d] :
            FetchAnswered(d, i, "other") =>
              /\ After(d, i).pc = "done"
              /\ After(d, i).upserts = 0
              /\ After(d, i).wrote = {}
              /\ After(d, i).reloads = 0
              /\ After(d, i).alerts = 1
              /\ local'[d] = local[d]
              /\ table' = table
              /\ reloadTimer'[d] = reloadTimer[d]
       /\ (reloadTimer'[d] /\ ~reloadTimer[d]) =>
            \E i \in DOMAIN tasks[d] : FetchAnswered(d, i, "record")]_vars

\* a run ended on a failed fetch
C5_Witness ==
  /\ last["d1"].fetched = "other"
  /\ last["d1"].outcome = "fetchError"

\* C6: a run of importUserSettings whose identity check happens while no
\* identity is signed in makes no fetch and no upsert, writes no local slot
\* and arms no reload.
C6_SignedOutIsNoOp ==
  [][\A d \in Devices : \A i \in DOMAIN tasks[d] :
       (UserAnswered(d, i, "import") /\ session[d] = None) =>
         /\ After(d, i).pc = "done"
         /\ After(d, i).fetches = 0
         /\ After(d, i).upserts = 0
         /\ After(d, i).wrote = {}
         /\ After(d, i).reloads = 0
         /\ After(d, i).alerts = 0
         /\ local' = local
         /\ table' = table
         /\ reloadTimer' = reloadTimer]_vars

\* a run started by a callback ended at its identity check after the logout
C6_Witness ==
  /\ session["d1"] = None
  /\ hook["d1"].invoked > 0
  /\ last["d1"].kind = "import"
  /\ last["d1"].checked
  /\ last["d1"].user = None
  /\ last["d1"].outcome = "noUser"

\* C7: when the fetch returns NotFound while all five local slots are empty,
\* the run issues no upsert, writes no local slot, arms no reload and shows no
\* notification, and the table still has no row of that identity.
C7_FreshStartIsNoOp ==
  [][\A d \in Devices : \A i \in DOMAIN tasks[d] :
       (FetchAnswered(d, i, "PGRST116") /\ AllSlotsEmpty(local[d])) =>
         /\ After(d, i).pc = "done"
         /\ After(d, i).upserts = 0
         /\ After(d, i).wrote = {}
         /\ After(d, i).reloads = 0
         /\ After(d, i).alerts = 0
         /\ local' = local
         /\ reloadTimer' = reloadTimer
         /\ table' = table
         /\ RowsOf(table', tasks[d][i].user) = {}]_vars

\* a run found neither a record nor local data
C7_Witness ==
  /\ last["d1"].fetched = "PGRST116"
  /\ last["d1"].outcome = "freshStart"
  /\ AllSlotsEmpty(local["d1"])

\* C8: exportUserSettings with a signed-in identity issues exactly one upsert
\* of the five-slot local bundle keyed by that identity, without a fetch; after
\* a successful save the five slots of the remote record equal the local
\* bundle; with no identity it issues no upsert and shows one notification; it
\* never writes a local slot or arms a reload.
C8_ManualSave ==
  [][\A d \in Devices : \A i \in DOMAIN tasks[d] :
       /\ (UserAnswered(d, i, "export") /\ After(d, i).user # None) =>
            /\ After(d, i).pc = "uploading"
            /\ After(d, i).upserts = 1
            /\ After(d, i).fetches = 0
            /\ After(d, i).payload.user_id = After(d, i).user
            /\ After(d, i).payload.body = Bundle(local[d])
       /\ (UserAnswered(d, i, "export") /\ After(d, i).user = None) =>
            /\ After(d, i).pc = "done"
            /\ After(d, i).upserts = 0
            /\ After(d, i).alerts = 1
       /\ (Moved(d, i) /\ tasks[d][i].kind = "export") =>
            /\ local' = local
            /\ reloadTimer' = reloadTimer
       /\ (Moved(d, i) /\ tasks[d][i].kind = "export"
             /\ After(d, i).outcome = "uploaded") =>
            \E r \in table' :
              /\ r.user_id = After(d, i).user
              /\ \A s \in SlotNames : r.cols[ColumnOf(s)] = After(d, i).payload.body[s]]_vars

\* C9: once every callback has completed, importUserSettings was invoked once
\* per notification that carried an identity, and the number of invocations
\* equals the number of sign-in transitions.
C9_OncePerSignIn ==
  \A d \in Devices :
    (\A u \in Users : pending[d][u] = 0) =>
      /\ hook[d].invoked = hook[d].withIdentity
      /\ hook[d].invoked = hook[d].signIns

\* C10: the step in which a callback dispatches importUserSettings also
\* completes the callback with loading set to false, while the dispatched run
\* has not got any answer yet.
C10_HookDoesNotWait ==
  [][\A d \in Devices :
       (/\ Len(tasks'[d]) = Len(tasks[d]) + 1
        /\ tasks'[d][Len(tasks'[d])].kind = "import") =>
         /\ tasks'[d][Len(tasks'[d])].pc = "getUser"
         /\ ~auth'[d].loading
         /\ \E u \in Users : pending'[d] = [pending[d] EXCEPT ![u] = @ - 1]]_vars

\* the callbacks have completed and loading is false while a dispatched run
\* still waits for the answer of its select
C10_Witness ==
  /\ \A u \in Users : pending["d1"][u] = 0
  /\ ~auth["d1"].loading
  /\ \E i \in DOMAIN tasks["d1"] :
       tasks["d1"][i].kind = "import" /\ tasks["d1"][i].pc = "fetching"

\* C11: every run of importUserSettings the hook dispatched ends inside the
\* run: never by an exception that rejects the promise nobody awaits, and a
\* run that ends on a failed fetch or a failed upload has shown exactly one
\* notification.
C11_FailuresContained ==
  [][\A d \in Devices : \A i \in DOMAIN tasks[d] :
       (Moved(d, i) /\ tasks[d][i].kind = "import" /\ After(d, i).pc = "done") =>
         /\ After(d, i).outcome # "threw"
         /\ After(d, i).outcome \in {"fetchError", "uploadError"} =>
              After(d, i).alerts = 1]_vars

\* C12: gatherDataFromLocalStorage never fails: for every content of the five
\* local slots it returns the bundle in which a missing, unparsable or
\* non-sequence slot is the empty sequence and every other slot is as stored.
C12_GatherNeverFails ==
  \A d \in Devices :
    /\ gatherDataFromLocalStorage(local[d]).ok
    /\ gatherDataFromLocalStorage(local[d]).data = Bundle(local[d])

\* C13: applyDataToLocalStorage, applied to a partial bundle, overwrites each
\* local slot whose property is present with the JSON of that property, the
\* empty sequence included, and leaves every slot without a property as it
\* was.
C13_WritesExactlyPresentSlots ==
  [][\A d \in Devices : \A i \in DOMAIN tasks[d] :
       FetchAnswered(d, i, "record") =>
         LET partial == SelectSingle(table, tasks[d][i].caller, tasks[d][i].user).data.cols
         IN  \A s \in SlotNames :
               /\ (s \in DOMAIN partial /\ partial[s].t = "array") =>
                    local'[d][StorageKey(s)] = Item(JSONstringify(partial[s]))
               /\ s \notin DOMAIN partial =>
                    local'[d][StorageKey(s)] = local[d][StorageKey(s)]]_vars

\* a partial bundle without actionButtons and with folders present as the
\* empty sequence was applied to a store holding action buttons and no folders
C13_Witness ==
  /\ last["d1"].outcome = "applied"
  /\ "folders" \in last["d1"].wrote
  /\ "actionButtons" \notin last["d1"].wrote
  /\ local["d1"]["poker-ranges-folders"] = Item(<<"[", "]">>)
  /\ local["d1"]["poker-ranges-actions"] = Item(<<"[", "r1", "]">>)

\* C14: the table never holds two rows of one user id, and right after every
\* successful upsert, from either device and from either upload path, a fetch
\* for that user id returns that upsert's bundle in all five slots.
C14_OneRowLastUpsert ==
  [][/\ \A u \in Users : Cardinality(RowsOf(table', u)) <= 1
     /\ \A d \in Devices : \A i \in DOMAIN tasks[d] :
          (/\ Moved(d, i)
           /\ tasks[d][i].pc = "uploading"
           /\ After(d, i).outcome = "uploaded") =>
            LET t == tasks[d][i]
                f == SelectSingle(table', t.caller, t.payload.user_id)
            IN  /\ f.code = ""
                /\ \A s \in SlotNames :
                     f.data.cols[ColumnOf(s)] = t.payload.body[s]]_vars

\* C15: whenever the rows of an identity u change, the statement of that
\* step was issued with the token of u, and a select that was answered with a
\* record asked for the caller's own row: no caller reads, creates or changes
\* the row of another identity.
C15_NoCrossUserAccess ==
  [][/\ \A u \in Users :
          RowsOf(table', u) # RowsOf(table, u) =>
            \E d \in Devices :
              /\ session[d] = u
              /\ last'[d].kind \in {"insert", "update"}
              /\ last'[d].caller = u
     /\ \A d \in Devices :
          (/\ last'[d] # last[d]
           /\ last'[d].kind = "select"
           /\ last'[d].fetched = "record") =>
            /\ last'[d].user = last'[d].caller
            /\ last'[d].caller = session[d]]_vars

\* an identity that has a row tried to re-key it to the other identity and
\* the update was rejected
C15_Witness ==
  /\ last["d1"].kind = "update"
  /\ last["d1"].caller \in Users
  /\ last["d1"].user \in Users \ {last["d1"].caller}
  /\ last["d1"].outcome = "denied"
  /\ RowsOf(table, last["d1"].caller) # {}
  /\ RowsOf(table, last["d1"].user) = {}

\* C16: every row of the table carries the server's time of its last write
\* as updated_at, after the first insert as after every replacement.
C16_ServerTimestamp ==
  \A r \in table : r.updated_at = ServerNow

\* C17: once both devices have completed an upload for the same identity,
\* the remote record equals, in all five slots, the bundle one of the two
\* uploads carried.
C17_LastWriterWinsWhole ==
  (/\ last["d1"].outcome = "uploaded"
   /\ last["d2"].outcome = "uploaded"
   /\ last["d1"].payload.user_id = last["d2"].payload.user_id) =>
    \E d \in Devices : \E r \in table :
      /\ r.user_id = last[d].payload.user_id
      /\ \A s \in SlotNames : r.cols[ColumnOf(s)] = last[d].payload.body[s]

\* C18: when device a has completed its initial upload of bundle B and
\* device b, whose local store was never written, then gets the record from
\* its fetch, b's local bundle afterwards equals B in all five slots.
C18_RoundTrip ==
  [][\A a \in Devices : \A b \in Devices \ {a} : \A i \in DOMAIN tasks[b] :
       (/\ last[a].outcome = "uploaded"
        /\ last[a].fetched = "PGRST116"
        /\ last[b] = NoTask
        /\ local[b] = EmptyStore
        /\ tasks[b][i].user = last[a].payload.user_id
        /\ FetchAnswered(b, i, "record")) =>
         Bundle(local'[b]) = last[a].payload.body]_vars

\* C19: a run of importUserSettings applies a record to the local store, and
\* has its upsert executed, only while the identity it asked getUser for is
\* still the one signed in on the device.
C19_WritesForCurrentIdentity ==
  [][\A d \in Devices : \A i \in DOMAIN tasks[d] :
       /\ FetchAnswered(d, i, "record") => session[d] = tasks[d][i].user
       /\ (/\ Moved(d, i)
           /\ tasks[d][i].kind = "import"
           /\ tasks[d][i].pc = "uploading"
           /\ table' # table) => session[d] = tasks[d][i].payload.user_id]_vars

\* C20: once every callback has completed, user and profile are those of the
\* last notification: both null when it carried no identity, otherwise the
\* user is that identity and the profile is the one fetched for it (or null
\* when it has none).
C20_HookReflectsLastNotification ==
  \A d \in Devices :
    (\A u \in Users : pending[d][u] = 0) =>
      /\ auth[d].user = session[d]
      /\ session[d] = None => auth[d].profile = None
      /\ session[d] # None => auth[d].profile \in {session[d], None}

====
